---------------------------- MODULE Spec2Model ----------------------------
(***************************************************************************)
(* A model of mountaineer's development watcher (src/mountaineer/watch.py):*)
(* PackageWatchdog (package validation, path resolution, merge_paths, the  *)
(* .watchdog.lock file, start_watching) and ChangeEventHandler (filtering, *)
(* the debounce Timer, handle_callbacks).                                  *)
(* handle_runserver of src/filzl/cli.py is modelled for its processes.     *)
(*                                                                         *)
(* Strings are sequences of one-character strings, a path is the sequence  *)
(* of its segments below the root "/".                                     *)
(***************************************************************************)
EXTENDS Integers, Sequences, FiniteSets, TLC

VARIABLES
    \* ---- PackageWatchdog sessions (one per process), indexed by session
    env,            \* the installed index: package -> distribution or NotInstalled
    run_on_bootup,  \* PackageWatchdog.run_on_bootup
    spc,            \* each session's position in __init__ / start_watching
    exc,            \* the exception a session is unwinding with or ended with
    exc_args,       \* what the message of that exception names
    paths,          \* PackageWatchdog.paths (after merge_paths)
    touched,        \* the session has executed lock_path.touch()
    lock_file,      \* <main package dir>/.watchdog.lock: NoFile or who created it
    bootcalls,      \* callbacks invoked by the run_on_bootup loop, in order
    scheduled,      \* the roots registered with the session's observer
    observer,       \* the session's Observer thread
    \* ---- the ChangeEventHandler of the watching session
    ignore_hidden,  \* ChangeEventHandler.ignore_hidden
    ignore_changes, \* ChangeEventHandler.ignore_changes
    debounce_timer, \* ChangeEventHandler.debounce_timer: NoTimer or a Timer
    timers,         \* every threading.Timer the handler has created
    inflight,       \* raw events caused by callback writes, not yet delivered
    \* ---- merge_paths as a function of its argument
    raw_paths,      \* the argument of merge_paths
    merged,         \* its result
    remerged,       \* the result of merge_paths applied to its own result
    mpc,            \* "input" before the call, "merged" after it, then "remerged"
    \* ---- resolve_package_path as a function of its argument
    rdist,          \* the distribution given to resolve_package_path
    resolved_path,  \* its result, NoPath when it raised
    rpc,            \* "input" before the call, "resolved" after it
    \* ---- one raw event delivered to a ChangeEventHandler
    raw_event,      \* the event the observer hands to dispatch
    fpc,            \* "event" before the delivery, "delivered" after it
    \* ---- handle_runserver (src/filzl/cli.py)
    procs,                  \* the processes the command has started, in order
    build_process,          \* handle_runserver's build_process: None or a process
    current_uvicorn_thread, \* its current_uvicorn_thread: None or a process
    upc                     \* the position of the thread that runs update_build

sessVars == <<env, run_on_bootup, spc, exc, exc_args, paths, touched, lock_file,
              bootcalls, scheduled, observer>>
handlerVars == <<ignore_hidden, ignore_changes, debounce_timer, timers, inflight>>
mergeVars == <<raw_paths, merged, remerged, mpc>>
resolveVars == <<rdist, resolved_path, rpc>>
filterVars == <<raw_event, fpc>>
pureVars == <<mergeVars, resolveVars, filterVars>>
cliVars == <<procs, build_process, current_uvicorn_thread, upc>>
vars == <<sessVars, handlerVars, pureVars, cliVars>>

---------------------------------------------------------------------------
(* Bounds of the model *)

\* sessions that may race for the same lock
NumSessions == 2
\* Timers the handler creates in a run (= qualifying events it accepts), when
\* the handler is checked on its own
MaxTimers == 2
\* the same, when the handler runs inside a whole session
MaxSessionTimers == 1
\* raw events of callback writes waiting in the observer's queue
MaxInflight == 1
\* length of merge_paths' argument
MaxPaths == 4

---------------------------------------------------------------------------
(* Strings and paths *)

Range(s) == {s[i] : i \in DOMAIN s}

RECURSIVE SeqsUpTo(_, _)
SeqsUpTo(S, n) ==
    IF n = 0 THEN {<<>>}
    ELSE LET shorter == SeqsUpTo(S, n - 1)
         IN  shorter \cup {Append(s, x) : s \in {t \in shorter : Len(t) = n - 1}, x \in S}

IsPrefix(p, q) == Len(p) <= Len(q) /\ SubSeq(q, 1, Len(p)) = p

DotDot == <<".", ".">>

\* pathlib.Path.resolve() on a path without symbolic links: ".." steps to the
\* parent (the root is its own parent)
RECURSIVE Path_resolve(_)
Path_resolve(p) ==
    IF p = <<>> THEN <<>>
    ELSE LET front == Path_resolve(SubSeq(p, 1, Len(p) - 1))
             last == p[Len(p)]
         IN  IF last = DotDot
             THEN (IF front = <<>> THEN <<>> ELSE SubSeq(front, 1, Len(front) - 1))
             ELSE Append(front, last)

\* len(path.parts): the root "/" counts as a part
parts_len(p) == Len(p) + 1

\* PurePath.is_relative_to: parent's parts are a prefix of path's parts
is_relative_to(path, parent) == IsPrefix(parent, path)

\* a sort that is not stable: x goes before the elements of equal key
RECURSIVE SortByPartsUnstable(_)
SortByPartsUnstable(ps) ==
    IF ps = <<>> THEN <<>>
    ELSE LET rest == SortByPartsUnstable(SubSeq(ps, 1, Len(ps) - 1))
             x == ps[Len(ps)]
             k == Cardinality({i \in DOMAIN rest : parts_len(rest[i]) < parts_len(x)})
         IN  SubSeq(rest, 1, k) \o <<x>> \o SubSeq(rest, k + 1, Len(rest))

\* list.sort(key=...): stable, ascending by key (insertion of x after every
\* element whose key is not greater)
RECURSIVE SortByParts(_)
SortByParts(ps) ==
    IF ps = <<>> THEN <<>>
    ELSE LET rest == SortByParts(SubSeq(ps, 1, Len(ps) - 1))
             x == ps[Len(ps)]
             k == Cardinality({i \in DOMAIN rest : parts_len(rest[i]) <= parts_len(x)})
         IN  SubSeq(rest, 1, k) \o <<x>> \o SubSeq(rest, k + 1, Len(rest))

\* an admission test that lets every path in (no absorption by an ancestor)
AdmitAlways(path, sofar) == TRUE

\* the admission test of merge_paths' loop
Admit(path, sofar) == ~ \E i \in DOMAIN sofar : is_relative_to(path, sofar[i])

RECURSIVE MergeLoop(_, _)
MergeLoop(ps, sofar) ==
    IF ps = <<>> THEN sofar
    ELSE MergeLoop(Tail(ps),
                   IF Admit(Head(ps), sofar) THEN Append(sofar, Head(ps)) ELSE sofar)

merge_paths(raw) ==
    LET resolved == [i \in DOMAIN raw |-> Path_resolve(raw[i])]
    IN  MergeLoop(SortByParts(resolved), <<>>)

---------------------------------------------------------------------------
(* Installed distributions and resolve_package_path *)

\* the outcome of resolve_package_path when it raises: no path has an empty segment
NoPath == << <<>> >>

LowerChar(c) ==
    CASE c = "A" -> "a" [] c = "P" -> "p" [] c = "F" -> "f" [] OTHER -> c

\* str.lower()
lower(s) == [i \in DOMAIN s |-> LowerChar(s[i])]

\* str.replace(old, new) for one-character old and new
replace(s, old, new) == [i \in DOMAIN s |-> IF s[i] = old THEN new ELSE s[i]]

\* str.lstrip(chars): drops every leading character that is in chars
RECURSIVE lstrip(_, _)
lstrip(s, chars) ==
    IF s # <<>> /\ Head(s) \in chars THEN lstrip(Tail(s), chars) ELSE s

RECURSIVE rstrip(_, _)
rstrip(s, chars) ==
    IF s # <<>> /\ s[Len(s)] \in chars THEN rstrip(SubSeq(s, 1, Len(s) - 1), chars) ELSE s

Whitespace == {" ", "\n"}

\* str.strip()
strip(s) == rstrip(lstrip(s, Whitespace), Whitespace)

\* str.split("/"): the components between the separators, empty ones included
RECURSIVE split(_, _)
split(s, sep) ==
    IF \A i \in DOMAIN s : s[i] # sep THEN <<s>>
    ELSE LET k == CHOOSE i \in DOMAIN s : s[i] = sep /\ \A j \in 1..(i - 1) : s[j] # sep
         IN  <<SubSeq(s, 1, k - 1)>> \o split(SubSeq(s, k + 1, Len(s)), sep)

\* pathlib.Path(text): the segments of the text; empty and "." segments drop out
PathSegments(text) ==
    LET comps == split(text, "/")
        keep == {i \in DOMAIN comps : comps[i] # <<>> /\ comps[i] # <<".">>}
        RECURSIVE Pick(_)
        Pick(i) == IF i > Len(comps) THEN <<>>
                   ELSE (IF i \in keep THEN <<comps[i]>> ELSE <<>>) \o Pick(i + 1)
    IN  Pick(1)

IsAbsoluteText(text) == text # <<>> /\ Head(text) = "/"

\* the directory the distributions are installed in (dist._path.parent)
SitePackages == << <<"s", "p">> >>

\* Distribution.locate_file(path): self._path.parent / path; an absolute
\* right operand of "/" replaces the left one
locate_file(text) ==
    IF IsAbsoluteText(text) THEN PathSegments(text)
    ELSE SitePackages \o PathSegments(text)

\* path.parent.name of a manifest entry ("" at the top of the manifest)
ParentName(f) == IF f.dir = <<>> THEN <<>> ELSE f.dir[Len(f.dir)]

S_pth == <<".", "p", "t", "h">>
S_direct_url == <<"d", "i", "r", "e", "c", "t", "_", "u", "r", "l", ".", "j", "s", "o", "n">>
S_init == <<"_", "_", "i", "n", "i", "t", "_", "_", ".", "p", "y">>
S_dist_info == <<".", "d", "i", "s", "t", "-", "i", "n", "f", "o">>
VersionChars == {"0", "1", "2", "3", "4", "5", "6", "7", "8", "9", "-", "."}
FileSchemeChars == {"f", "i", "l", "e", ":", "/"}

\* re.search(package_name + r"-[0-9-.]+\.dist-info", text): the package name
\* is read as a pattern, in which "." matches any character
ReMatchAt(pat, text, i) ==
    /\ i + Len(pat) - 1 <= Len(text)
    /\ \A k \in DOMAIN pat : pat[k] = "." \/ pat[k] = text[i + k - 1]

re_search_dist_info(package_name, text) ==
    \E i \in 1..(Len(text) + 1) :
        /\ ReMatchAt(package_name, text, i)
        /\ LET d == i + Len(package_name)
           IN  /\ d <= Len(text) /\ text[d] = "-"
               /\ \E n \in 1..Len(text) :
                    /\ d + n + Len(S_dist_info) <= Len(text)
                    /\ \A k \in 1..n : text[d + k] \in VersionChars
                    /\ SubSeq(text, d + n + 1, d + n + Len(S_dist_info)) = S_dist_info

\* the directory a manifest entry lies in, as text relative to the manifest
RECURSIVE JoinDir(_)
JoinDir(dir) ==
    IF dir = <<>> THEN <<>>
    ELSE IF Len(dir) = 1 THEN dir[1]
    ELSE dir[1] \o <<"/">> \o JoinDir(Tail(dir))

\* a chain that tries the package directory first
first_strategy_explicit_first(symbolic_links, dist_links, explicit_links) ==
    IF explicit_links # <<>> THEN "explicit"
    ELSE IF symbolic_links # <<>> THEN "symbolic"
    ELSE IF dist_links # <<>> THEN "dist"
    ELSE "none"

\* the if/elif chain of resolve_package_path: the first strategy with a match
first_strategy(symbolic_links, dist_links, explicit_links) ==
    IF symbolic_links # <<>> THEN "symbolic"
    ELSE IF dist_links # <<>> THEN "dist"
    ELSE IF explicit_links # <<>> THEN "explicit"
    ELSE "none"

\* resolve_package_path: the watched directory, or NoPath for the ValueError
resolve_package_path(dist) ==
    LET package_name == lower(replace(dist.name, "-", "_"))
        IsSymbolic(f) == lower(f.name) = package_name \o S_pth
        IsDist(f) == /\ f.name = S_direct_url
                     /\ re_search_dist_info(package_name, lower(ParentName(f)))
        IsExplicit(f) == /\ lower(ParentName(f)) = package_name
                         /\ f.name = S_init
        symbolic_links == SelectSeq(dist.files, IsSymbolic)
        dist_links == SelectSeq(dist.files, IsDist)
        explicit_links == SelectSeq(dist.files, IsExplicit)
        strategy == first_strategy(symbolic_links, dist_links, explicit_links)
    IN  CASE strategy = "symbolic" ->
               locate_file(strip(symbolic_links[1].text))
          [] strategy = "dist" ->
               locate_file(<<"/">> \o lstrip(lstrip(dist_links[1].url, FileSchemeChars), {"/"}))
          [] strategy = "explicit" ->
               locate_file(JoinDir(explicit_links[1].dir))
          [] OTHER -> NoPath

---------------------------------------------------------------------------
(* The installed index the sessions run against *)

\* a package the installed index does not hold
NotInstalled == [installed |-> FALSE, name |-> <<>>, files |-> <<>>]

File(dir, name, text, url) == [dir |-> dir, name |-> name, text |-> text, url |-> url]

N_main == <<"A", "-", "p">>
N_dep == <<"f">>

\* the main package, installed with a path-configuration file naming /a
D_main_pth == [installed |-> TRUE, name |-> N_main,
               files |-> << File(<<>>, <<"a", "_", "p", ".", "p", "t", "h">>, <<"/", "a", "\n">>, <<>>) >>]
\* the main package, installed as a tree <site-packages>/a_p
D_main_tree == [installed |-> TRUE, name |-> N_main,
                files |-> << File(<< <<"a", "_", "p">> >>, S_init, <<>>, <<>>) >>]
\* the main package with a manifest no strategy matches
D_main_bare == [installed |-> TRUE, name |-> N_main,
                files |-> << File(<< <<"a", "_", "p">> >>, <<"x", ".", "p", "y">>, <<>>, <<>>) >>]
\* the dependent package, installed with a direct-URL record naming /a/b
D_dep_url == [installed |-> TRUE, name |-> N_dep,
              files |-> << File(<< <<"f", "-", "0", ".", "1", ".", "d", "i", "s", "t", "-", "i", "n", "f", "o">> >>, S_direct_url, <<>>, <<"f", "i", "l", "e", ":", "/", "/", "/", "a", "/", "b">>) >>]
\* the dependent package, installed with a path-configuration file naming /d
D_dep_pth == [installed |-> TRUE, name |-> N_dep,
              files |-> << File(<<>>, <<"f", ".", "p", "t", "h">>, <<"/", "d">>, <<>>) >>]
D_dep_bare == [installed |-> TRUE, name |-> N_dep,
               files |-> << File(<<>>, <<"x", ".", "p", "y">>, <<>>, <<>>) >>]

\* self.packages = [main_package] + dependent_packages, as positions 1 and 2
Envs ==
    { <<D_main_pth, D_dep_url>>,      \* the dependent package lies inside the main one
      <<D_main_tree, D_dep_pth>>,     \* two separate roots
      <<D_main_pth, NotInstalled>>,
      <<NotInstalled, D_dep_pth>>,
      <<D_main_pth, D_dep_bare>>,
      <<D_main_bare, D_dep_pth>>,
      <<D_main_bare, D_dep_bare>>,
      <<D_main_bare, NotInstalled>>,  \* the dependent one missing, the main one unresolvable
      <<NotInstalled, NotInstalled>> }

\* importlib.metadata.version(package) raises PackageNotFoundError
PackageNotFound(e, i) == ~e[i].installed

\* os.path.isdir: /d is a single-file module, every other resolved path a directory
os_path_isdir(path) == path # << <<"d">> >>

\* os.path.dirname
os_path_dirname(path) == IF path = <<>> THEN <<>> ELSE SubSeq(path, 1, Len(path) - 1)

---------------------------------------------------------------------------
(* PackageWatchdog: __init__ and start_watching, one step per statement    *)
(* another process or thread can interleave with                            *)

Sessions == 1..NumSessions

\* lock_file: no file, or the session whose touch() created it; Foreign
\* stands for a file left by a process outside the model
NoFile == 0
Foreign == -1

\* callbacks: list[CallbackDefinition]; action is the CallbackType flag set
Callbacks == << [action |-> {"CREATED", "MODIFIED"}],
                [action |-> {"MODIFIED", "DELETED"}] >>

NCallbacks == Len(Callbacks)

SetPc(s, to) == spc' = [spc EXCEPT ![s] = to]

\* a statement of start_watching raises: the session leaves with exception e
Raise(s, e) == exc' = [exc EXCEPT ![s] = e]

\* self.packages = [main_package] + dependent_packages
Packages == <<N_main, N_dep>>

\* the args of an exception whose message names no package
NoArgs == [text |-> "", package |-> <<>>, files |-> <<>>]

Min(S) == CHOOSE x \in S : \A y \in S : x <= y

Max(S) == CHOOSE x \in S : \A y \in S : x >= y

\* a loop that goes on after a failed lookup and reports the last one
LastNotFound(e) == Max({i \in DOMAIN e : PackageNotFound(e, i)})

\* the package at which the loop of check_packages_installed raises
FirstNotFound(e) == Min({i \in DOMAIN e : PackageNotFound(e, i)})

\* check_packages_installed: ValueError for the first package not installed
check_packages_installed(s) ==
    /\ spc[s] = "new"
    /\ IF \E i \in DOMAIN env : PackageNotFound(env, i)
       THEN /\ SetPc(s, "ended")
            /\ Raise(s, "ValueError")
            /\ exc_args' = [exc_args EXCEPT ![s] =
                   [text |-> "is not installed in the current environment",
                    package |-> Packages[FirstNotFound(env)], files |-> <<>>]]
       ELSE SetPc(s, "checked") /\ UNCHANGED <<exc, exc_args>>
    /\ UNCHANGED <<env, run_on_bootup, paths, touched, lock_file, bootcalls,
                   scheduled, observer, handlerVars, pureVars, cliVars>>

\* a degraded mode: packages that do not resolve are left out
get_package_paths_partial(s) ==
    /\ spc[s] = "checked"
    /\ LET resolved == [i \in DOMAIN env |-> resolve_package_path(env[i])]
           found == SelectSeq(resolved, LAMBDA r : r # NoPath)
       IN  paths' = [paths EXCEPT ![s] = merge_paths(found)]
    /\ SetPc(s, "constructed")
    /\ UNCHANGED <<env, run_on_bootup, exc_args, exc, touched, lock_file, bootcalls,
                   scheduled, observer, handlerVars, pureVars, cliVars>>

\* get_package_paths: resolve every package, then merge
get_package_paths(s) ==
    /\ spc[s] = "checked"
    /\ LET resolved == [i \in DOMAIN env |-> resolve_package_path(env[i])]
       IN  IF \E i \in DOMAIN resolved : resolved[i] = NoPath
           THEN LET i == Min({j \in DOMAIN resolved : resolved[j] = NoPath})
                IN  /\ SetPc(s, "ended")
                    /\ Raise(s, "ValueError")
                    /\ exc_args' = [exc_args EXCEPT ![s] =
                           [text |-> "Could not find a valid path for package",
                            package |-> env[i].name, files |-> env[i].files]]
                    /\ UNCHANGED paths
           ELSE /\ paths' = [paths EXCEPT ![s] = merge_paths(resolved)]
                /\ SetPc(s, "constructed")
                /\ UNCHANGED <<exc, exc_args>>
    /\ UNCHANGED <<env, run_on_bootup, touched, lock_file, bootcalls,
                   scheduled, observer, handlerVars, pureVars, cliVars>>

\* an exists() test that never sees the file
lock_path_exists_never == FALSE

\* lock_path.exists() as acquire_watchdog_lock reads it
lock_path_exists == lock_file # NoFile

\* acquire_watchdog_lock up to the exists() test: WatchdogLockError when the
\* file is there (raised before the try, so no unlink follows)
acquire_watchdog_lock(s) ==
    /\ spc[s] = "constructed"
    /\ IF resolve_package_path(env[1]) = NoPath
       THEN SetPc(s, "ended") /\ Raise(s, "ValueError")
       ELSE IF lock_path_exists
       THEN SetPc(s, "ended") /\ Raise(s, "WatchdogLockError")
       ELSE SetPc(s, "touch") /\ UNCHANGED exc
    /\ UNCHANGED <<env, run_on_bootup, exc_args, paths, touched, lock_file, bootcalls,
                   scheduled, observer, handlerVars, pureVars, cliVars>>

\* lock_path.touch(): creates the file unless it is there already
lock_path_touch(s) ==
    /\ spc[s] = "touch"
    /\ lock_file' = IF lock_file = NoFile THEN s ELSE lock_file
    /\ touched' = [touched EXCEPT ![s] = TRUE]
    /\ SetPc(s, "bootup")
    /\ UNCHANGED <<env, run_on_bootup, exc_args, exc, paths, bootcalls, scheduled,
                   observer, handlerVars, pureVars, cliVars>>

\* a bootup loop that does not look at run_on_bootup
BootupPendingAlways(s) == Len(bootcalls[s]) < NCallbacks

\* whether the bootup loop has a callback left to invoke
BootupPending(s) == run_on_bootup /\ Len(bootcalls[s]) < NCallbacks

\* the bootup loop calls the next callback_definition.callback()
BootupInvoke(s) ==
    /\ spc[s] = "bootup"
    /\ BootupPending(s)
    /\ bootcalls' = [bootcalls EXCEPT ![s] = Append(@, Len(@) + 1)]
    /\ SetPc(s, "bootup_callback")
    /\ UNCHANGED <<env, run_on_bootup, exc_args, exc, paths, touched, lock_file,
                   scheduled, observer, handlerVars, pureVars, cliVars>>

BootupReturn(s) ==
    /\ spc[s] = "bootup_callback"
    /\ SetPc(s, "bootup")
    /\ UNCHANGED <<env, run_on_bootup, exc_args, exc, paths, touched, lock_file, bootcalls,
                   scheduled, observer, handlerVars, pureVars, cliVars>>

\* an exception that leaves the with block without running the finally
ExceptionExitNoFinally == "ended"

\* where an exception in the with block leads: to the finally of
\* acquire_watchdog_lock, which the exception is thrown into at its yield
ExceptionExit == "unlock"

\* the callback raises: the with block is left through the finally
BootupRaise(s) ==
    /\ spc[s] = "bootup_callback"
    /\ SetPc(s, ExceptionExit)
    /\ Raise(s, "CallbackError")
    /\ UNCHANGED <<env, run_on_bootup, exc_args, paths, touched, lock_file, bootcalls,
                   scheduled, observer, handlerVars, pureVars, cliVars>>

\* the root observer.schedule is given for a path
WatchRoot(path) ==
    IF os_path_isdir(path) THEN [root |-> path, recursive |-> TRUE]
    ELSE [root |-> os_path_dirname(path), recursive |-> FALSE]

\* ChangeEventHandler(...), Observer(), and observer.schedule for every path
SetupObserver(s) ==
    /\ spc[s] = "bootup"
    /\ ~BootupPending(s)
    /\ scheduled' = [scheduled EXCEPT ![s] = {WatchRoot(paths[s][i]) : i \in DOMAIN paths[s]}]
    /\ observer' = [observer EXCEPT ![s] = "created"]
    /\ SetPc(s, "start")
    /\ UNCHANGED <<env, run_on_bootup, exc_args, exc, paths, touched, lock_file, bootcalls,
                   handlerVars, pureVars, cliVars>>

\* observer.schedule raises (the path is gone, the watch limit is reached)
SetupRaise(s) ==
    /\ spc[s] = "bootup"
    /\ ~BootupPending(s)
    /\ SetPc(s, ExceptionExit)
    /\ Raise(s, "OSError")
    /\ UNCHANGED <<env, run_on_bootup, exc_args, paths, touched, lock_file, bootcalls,
                   scheduled, observer, handlerVars, pureVars, cliVars>>

\* observer.start(); the session then blocks in observer.join()
ObserverStart(s) ==
    /\ spc[s] = "start"
    /\ observer' = [observer EXCEPT ![s] = "running"]
    /\ SetPc(s, "join")
    /\ UNCHANGED <<env, run_on_bootup, exc_args, exc, paths, touched, lock_file, bootcalls,
                   scheduled, handlerVars, pureVars, cliVars>>

\* the observer thread ends by itself and observer.join() returns
JoinReturn(s) ==
    /\ spc[s] = "join"
    /\ observer' = [observer EXCEPT ![s] = "dead"]
    /\ SetPc(s, "unlock")
    /\ UNCHANGED <<env, run_on_bootup, exc_args, exc, paths, touched, lock_file, bootcalls,
                   scheduled, handlerVars, pureVars, cliVars>>

\* KeyboardInterrupt in observer.join()
KeyboardInterrupt(s) ==
    /\ spc[s] = "join"
    /\ SetPc(s, "interrupted")
    /\ UNCHANGED <<env, run_on_bootup, exc_args, exc, paths, touched, lock_file, bootcalls,
                   scheduled, observer, handlerVars, pureVars, cliVars>>

\* except KeyboardInterrupt: observer.stop(); observer.join()
ObserverStop(s) ==
    /\ spc[s] = "interrupted"
    /\ observer' = [observer EXCEPT ![s] = "stopped"]
    /\ SetPc(s, "unlock")
    /\ UNCHANGED <<env, run_on_bootup, exc_args, exc, paths, touched, lock_file, bootcalls,
                   scheduled, handlerVars, pureVars, cliVars>>

\* a finally that leaves the file where it is
lock_path_unlink_skipped(s) ==
    /\ spc[s] = "unlock"
    /\ SetPc(s, "ended")
    /\ UNCHANGED <<env, run_on_bootup, exc, exc_args, paths, touched, lock_file,
                   bootcalls, scheduled, observer, handlerVars, pureVars, cliVars>>

\* finally: lock_path.unlink(); FileNotFoundError when the file is gone
lock_path_unlink(s) ==
    /\ spc[s] = "unlock"
    /\ IF lock_file # NoFile
       THEN lock_file' = NoFile /\ UNCHANGED exc
       ELSE Raise(s, "FileNotFoundError") /\ UNCHANGED lock_file
    /\ SetPc(s, "ended")
    /\ UNCHANGED <<env, run_on_bootup, exc_args, paths, touched, bootcalls,
                   scheduled, observer, handlerVars, pureVars, cliVars>>

\* between lock_path.touch() and lock_path.unlink()
InLockedRegion(s) ==
    spc[s] \in {"bootup", "bootup_callback", "start", "join", "interrupted", "unlock"}

SessionStep(s) ==
    \/ check_packages_installed(s)
    \/ get_package_paths(s)
    \/ acquire_watchdog_lock(s)
    \/ lock_path_touch(s)
    \/ BootupInvoke(s)
    \/ BootupReturn(s)
    \/ BootupRaise(s)
    \/ SetupObserver(s)
    \/ SetupRaise(s)
    \/ ObserverStart(s)
    \/ JoinReturn(s)
    \/ KeyboardInterrupt(s)
    \/ ObserverStop(s)
    \/ lock_path_unlink(s)

InitSessions(E, L) ==
    /\ env \in E
    /\ run_on_bootup \in BOOLEAN
    /\ spc = [s \in Sessions |-> "new"]
    /\ exc = [s \in Sessions |-> "none"]
    /\ exc_args = [s \in Sessions |-> NoArgs]
    /\ paths = [s \in Sessions |-> <<>>]
    /\ touched = [s \in Sessions |-> FALSE]
    /\ lock_file \in L
    /\ bootcalls = [s \in Sessions |-> <<>>]
    /\ scheduled = [s \in Sessions |-> {}]
    /\ observer = [s \in Sessions |-> "none"]

---------------------------------------------------------------------------
(* ChangeEventHandler: the handler start_watching gives the observer of    *)
(* the watching session. The observer thread delivers raw events one at a  *)
(* time; every threading.Timer runs handle_callbacks on a thread of its own *)

Watcher == 1

NoTimer == 0

\* ignore_list and ignore_hidden as ChangeEventHandler.__init__ defaults them
ignore_list == { <<"_", "_", "p", "y", "c", "a", "c", "h", "e", "_", "_">>,
                 <<"_", "s", "s", "r">>,
                 <<"_", "s", "t", "a", "t", "i", "c">>,
                 <<"_", "s", "e", "r", "v", "e", "r">> }
ignore_hidden_default == TRUE

startswith(s, c) == s # <<>> /\ Head(s) = c

\* should_ignore_path as a function of the handler's fields
should_ignore(path, changes, hidden, list) ==
    IF changes THEN TRUE
    ELSE LET path_components == Range(split(path, "/"))
         IN  IF hidden /\ \E component \in path_components : startswith(component, ".")
             THEN TRUE
             ELSE IF path_components \cap list # {} THEN TRUE
             ELSE FALSE

\* a filter that does not look at ignore_changes
should_ignore_path_no_flag(path) == should_ignore(path, FALSE, ignore_hidden, ignore_list)

should_ignore_path(path) == should_ignore(path, ignore_changes, ignore_hidden, ignore_list)

\* raw events of the file system: a plain file, a file below a hidden
\* directory, below an ignored directory, and below a directory whose name
\* only contains an ignore_list entry
EventPaths == { <<"/", "a", "/", "x">>,
                <<"/", "a", "/", ".", "g", "/", "x">>,
                <<"/", "a", "/", "_", "s", "s", "r", "/", "x">>,
                <<"/", "a", "/", "u", "_", "s", "s", "r", "/", "x">> }
EventKinds == {"created", "modified", "deleted"}
RawEvents == [kind : EventKinds, src_path : EventPaths, is_directory : BOOLEAN]

\* what a callback's write into a watched root makes the observer report
SelfWrites == [kind : {"created", "modified"}, src_path : { <<"/", "a", "/", "x">> },
               is_directory : {FALSE}]

\* a cancel() that leaves the waiting Timer running
NotCancelled(tm) == tm

\* Timer.cancel(): sets the finished event; a Timer still waiting never calls
\* its function, one past its wait is not affected
Cancelled(tm) == IF tm.pc = "waiting" THEN [tm EXCEPT !.pc = "cancelled"] ELSE tm

\* _debounce: cancel the Timer the handler holds, start a new one for action.
\* self and burst are history: whether the event came from a callback's write,
\* and the first Timer of the run of events each arriving while the Timer of
\* the one before was still waiting
_debounce(action, self, cap) ==
    /\ Len(timers) < cap
    /\ LET old == debounce_timer
           id == Len(timers) + 1
           extends == old # NoTimer /\ timers[old].pc = "waiting"
           cancelled == IF old = NoTimer THEN timers
                        ELSE [timers EXCEPT ![old] = Cancelled(@)]
           new == [pc |-> "waiting", action |-> action, idx |-> 0, self |-> self,
                   burst |-> IF extends THEN timers[old].burst ELSE id,
                   classes |-> IF extends THEN timers[old].classes \cup {action}
                               ELSE {action},
                   calls |-> <<>>]
       IN  /\ timers' = Append(cancelled, new)
           /\ debounce_timer' = id
    /\ UNCHANGED ignore_changes

Drop == UNCHANGED <<ignore_changes, debounce_timer, timers>>

on_modified(event, self, cap) ==
    IF should_ignore_path(event.src_path) THEN Drop
    ELSE IF ~event.is_directory THEN _debounce("MODIFIED", self, cap)
    ELSE Drop

on_created(event, self, cap) ==
    IF should_ignore_path(event.src_path) THEN Drop
    ELSE IF ~event.is_directory THEN _debounce("CREATED", self, cap)
    ELSE Drop

on_deleted(event, self, cap) ==
    IF should_ignore_path(event.src_path) THEN Drop
    ELSE IF ~event.is_directory THEN _debounce("DELETED", self, cap)
    ELSE Drop

\* FileSystemEventHandler.dispatch
dispatch(event, self, cap) ==
    CASE event.kind = "created" -> on_created(event, self, cap)
      [] event.kind = "modified" -> on_modified(event, self, cap)
      [] event.kind = "deleted" -> on_deleted(event, self, cap)

\* the observer thread delivers an event of the file system
ExternalEvent(cap) ==
    /\ observer[Watcher] = "running"
    /\ \E event \in RawEvents : dispatch(event, FALSE, cap)
    /\ UNCHANGED <<inflight, ignore_hidden, sessVars, pureVars, cliVars>>

\* the observer thread delivers the event of a callback's write
SelfEvent(cap) ==
    /\ observer[Watcher] = "running"
    /\ inflight # <<>>
    /\ dispatch(Head(inflight), TRUE, cap)
    /\ inflight' = Tail(inflight)
    /\ UNCHANGED <<ignore_hidden, sessVars, pureVars, cliVars>>

SetTimer(t, tm) == timers' = [timers EXCEPT ![t] = tm]

\* Timer t exists and its thread is at pc
TimerAt(t, pc) == t \in DOMAIN timers /\ timers[t].pc = pc

\* Timer.run: the wait timed out and finished is not set, the thread goes on
\* to call handle_callbacks
TimerFire(t) ==
    /\ TimerAt(t, "waiting")
    /\ SetTimer(t, [timers[t] EXCEPT !.pc = "fired"])
    /\ UNCHANGED <<ignore_changes, debounce_timer, inflight, ignore_hidden, sessVars, pureVars, cliVars>>

\* handle_callbacks: self.ignore_changes = True
handle_callbacks_begin(t) ==
    /\ TimerAt(t, "fired")
    /\ ignore_changes' = TRUE
    /\ SetTimer(t, [timers[t] EXCEPT !.pc = "loop", !.idx = 1])
    /\ UNCHANGED <<debounce_timer, inflight, ignore_hidden, sessVars, pureVars, cliVars>>

\* a loop that calls every callback whatever its mask
MatchesAny(action, callback) == TRUE

\* "action in callback.action"
Matches(action, callback) == action \in callback.action

\* the callbacks from position i on that the loop will call for action
Remaining(action, i) == {j \in i..NCallbacks : Matches(action, Callbacks[j])}

\* the loop reaches the next callback of the action and calls it
CallbackInvoke(t) ==
    /\ TimerAt(t, "loop")
    /\ Remaining(timers[t].action, timers[t].idx) # {}
    /\ LET j == Min(Remaining(timers[t].action, timers[t].idx))
       IN  SetTimer(t, [timers[t] EXCEPT !.pc = "callback", !.idx = j,
                                         !.calls = Append(@, j)])
    /\ UNCHANGED <<ignore_changes, debounce_timer, inflight, ignore_hidden, sessVars, pureVars, cliVars>>

\* the running callback writes a file into a watched root
CallbackWrite(t) ==
    /\ TimerAt(t, "callback")
    /\ observer[Watcher] = "running"
    /\ Len(inflight) < MaxInflight
    /\ \E w \in SelfWrites : inflight' = Append(inflight, w)
    /\ UNCHANGED <<ignore_changes, debounce_timer, timers, ignore_hidden, sessVars, pureVars, cliVars>>

CallbackReturn(t) ==
    /\ TimerAt(t, "callback")
    /\ SetTimer(t, [timers[t] EXCEPT !.pc = "loop", !.idx = @ + 1])
    /\ UNCHANGED <<ignore_changes, debounce_timer, inflight, ignore_hidden, sessVars, pureVars, cliVars>>

\* an exception of a callback that reaches the main thread and takes it out
\* of observer.join()
CallbackRaiseInMainThread(t) ==
    /\ TimerAt(t, "callback")
    /\ SetTimer(t, [timers[t] EXCEPT !.pc = "raised"])
    /\ spc' = [spc EXCEPT ![Watcher] = IF @ = "join" THEN ExceptionExit ELSE @]
    /\ exc' = [exc EXCEPT ![Watcher] = IF spc[Watcher] = "join" THEN "CallbackError" ELSE @]
    /\ UNCHANGED <<ignore_changes, debounce_timer, inflight, ignore_hidden, pureVars,
                   cliVars, env, run_on_bootup, exc_args, paths, touched, lock_file, bootcalls,
                   scheduled, observer>>

\* the running callback raises: the Timer thread ends with the exception,
\* the rest of handle_callbacks is not executed
CallbackRaise(t) ==
    /\ TimerAt(t, "callback")
    /\ SetTimer(t, [timers[t] EXCEPT !.pc = "raised"])
    /\ UNCHANGED <<ignore_changes, debounce_timer, inflight, ignore_hidden, sessVars, pureVars, cliVars>>

\* handle_callbacks: the loop is over, self.ignore_changes = False
handle_callbacks_end(t) ==
    /\ TimerAt(t, "loop")
    /\ Remaining(timers[t].action, timers[t].idx) = {}
    /\ ignore_changes' = FALSE
    /\ SetTimer(t, [timers[t] EXCEPT !.pc = "finished"])
    /\ UNCHANGED <<debounce_timer, inflight, ignore_hidden, sessVars, pureVars, cliVars>>

TimerStep(t) ==
    \/ TimerFire(t)
    \/ handle_callbacks_begin(t)
    \/ CallbackInvoke(t)
    \/ CallbackWrite(t)
    \/ CallbackReturn(t)
    \/ CallbackRaise(t)
    \/ handle_callbacks_end(t)

\* ChangeEventHandler.__init__
InitHandler ==
    /\ ignore_hidden = ignore_hidden_default
    /\ ignore_changes = FALSE
    /\ debounce_timer = NoTimer
    /\ timers = <<>>
    /\ inflight = <<>>

\* a Timer thread is inside handle_callbacks
InHandleCallbacks(t) == timers[t].pc \in {"loop", "callback"}

---------------------------------------------------------------------------
(* merge_paths on its own: the argument is any list of at most MaxPaths    *)
(* absolute paths of PathUniverse                                          *)

sA == <<"a">>
sB == <<"b">>
sC == <<"c">>
sD == <<"d">>
sE == <<"e">>

PathUniverse ==
    { <<sA>>, <<sA, sB>>, <<sA, sC, sD>>, <<sE>>, <<sE, sB>>,
      <<sA, DotDot, sE>>, <<sA, sB, DotDot>>, <<sE, sB, sC>> }

InitMergeIdle == raw_paths = <<>> /\ merged = <<>> /\ remerged = <<>> /\ mpc = "idle"

MergeCall ==
    /\ mpc = "input"
    /\ merged' = merge_paths(raw_paths)
    /\ mpc' = "merged"
    /\ UNCHANGED <<raw_paths, remerged, sessVars, handlerVars, resolveVars, filterVars, cliVars>>

\* merge_paths called on the list it returned
MergeAgain ==
    /\ mpc = "merged"
    /\ remerged' = merge_paths(merged)
    /\ mpc' = "remerged"
    /\ UNCHANGED <<raw_paths, merged, sessVars, handlerVars, resolveVars, filterVars, cliVars>>

---------------------------------------------------------------------------
(* resolve_package_path on its own: the argument is a distribution of the  *)
(* main package whose manifest lists at most MaxFiles entries of           *)
(* FileUniverse                                                            *)

MaxFiles == 3

DistInfoDir == <<"a", "_", "p", "-", "0", ".", "1", ".", "d", "i", "s", "t", "-", "i", "n", "f", "o">>

\* a_p.pth with the line "/a"
F_pth == File(<<>>, <<"a", "_", "p", ".", "p", "t", "h">>, <<"/", "a", "\n">>, <<>>)
\* a_p-0.1.dist-info/direct_url.json with the url file:///c/b
F_url == File(<<DistInfoDir>>, S_direct_url, <<>>,
              <<"f", "i", "l", "e", ":", "/", "/", "/", "c", "/", "b">>)
\* the same with the url file:///e/b, a path whose first segment begins with "e"
F_url_e == File(<<DistInfoDir>>, S_direct_url, <<>>,
                <<"f", "i", "l", "e", ":", "/", "/", "/", "e", "/", "b">>)
\* the same with the url file:////c/d, a path that begins with two slashes
F_url_slashes == File(<<DistInfoDir>>, S_direct_url, <<>>,
                      <<"f", "i", "l", "e", ":", "/", "/", "/", "/", "c", "/", "d">>)
\* a_p/__init__.py
F_init == File(<< <<"a", "_", "p">> >>, S_init, <<>>, <<>>)
\* a_p/x.py, an entry no strategy matches
F_other == File(<< <<"a", "_", "p">> >>, <<"x", ".", "p", "y">>, <<>>, <<>>)

FileUniverse == {F_pth, F_url, F_url_e, F_url_slashes, F_init, F_other}

InitResolveIdle == rdist = NotInstalled /\ resolved_path = NoPath /\ rpc = "idle"

ResolveCall ==
    /\ rpc = "input"
    /\ resolved_path' = resolve_package_path(rdist)
    /\ rpc' = "resolved"
    /\ UNCHANGED <<rdist, sessVars, handlerVars, mergeVars, filterVars, cliVars>>

---------------------------------------------------------------------------
(* One raw event delivered to a ChangeEventHandler, for either value of    *)
(* ignore_hidden and of ignore_changes                                     *)

NoEvent == [kind |-> "none", src_path |-> <<>>, is_directory |-> FALSE]

InitFilterIdle == raw_event = NoEvent /\ fpc = "idle"

\* the Timer whose thread is in a callback while ignore_changes is set
RunningTimer == [pc |-> "callback", action |-> "MODIFIED", idx |-> 1, self |-> FALSE,
                 burst |-> 1, classes |-> {"MODIFIED"}, calls |-> <<1>>]

\* the observer thread hands raw_event to the handler
Deliver ==
    /\ fpc = "event"
    /\ dispatch(raw_event, FALSE, MaxTimers)
    /\ fpc' = "delivered"
    /\ UNCHANGED <<raw_event, ignore_hidden, inflight, sessVars, mergeVars, resolveVars, cliVars>>

---------------------------------------------------------------------------
(* handle_runserver (src/filzl/cli.py): update_build, called once by the   *)
(* command itself and then by the watcher's callback, one call after the   *)
(* other; the build and server processes run and end on their own          *)

\* calls of update_build in a run
MaxBuilds == 3

None == 0

\* the state handle_runserver begins in: nothing started, both variables None
InitCli ==
    /\ procs = <<>>
    /\ build_process = None
    /\ current_uvicorn_thread = None
    /\ upc = "idle"

InitCliIdle == InitCli

\* multiprocessing.Process.is_alive()
is_alive(p) == procs[p].state \in {"alive", "signalled"}

SetUpc(to) == upc' = to

\* Process(...).start(): one more process of the kind, alive
StartProcess(kind) == procs' = Append(procs, [kind |-> kind, state |-> "alive"])

\* update_build is called: by line 79, or as the callback of the watcher
update_build ==
    /\ upc = "idle"
    /\ Cardinality({p \in DOMAIN procs : procs[p].kind = "build"}) < MaxBuilds
    /\ SetUpc("build_check")
    /\ UNCHANGED <<procs, build_process, current_uvicorn_thread>>

\* if build_process: if build_process.is_alive():
build_check ==
    /\ upc = "build_check"
    /\ IF build_process # None /\ is_alive(build_process)
       THEN SetUpc("build_terminate")
       ELSE SetUpc("build_start")
    /\ UNCHANGED <<procs, build_process, current_uvicorn_thread>>

\* build_process.terminate(): SIGTERM to the process, if it still runs
build_terminate ==
    /\ upc = "build_terminate"
    /\ procs' = [procs EXCEPT ![build_process].state =
                    IF @ = "alive" THEN "signalled" ELSE @]
    /\ SetUpc("build_join")
    /\ UNCHANGED <<build_process, current_uvicorn_thread>>

\* a join that returns at once
build_join_nowait ==
    /\ upc = "build_join"
    /\ SetUpc("build_start")
    /\ UNCHANGED <<procs, build_process, current_uvicorn_thread>>

\* build_process.join(): returns when the process has ended
build_join ==
    /\ upc = "build_join"
    /\ ~is_alive(build_process)
    /\ SetUpc("build_start")
    /\ UNCHANGED <<procs, build_process, current_uvicorn_thread>>

\* build_process = Process(target=restart_build_server, ...); .start()
build_start ==
    /\ upc = "build_start"
    /\ StartProcess("build")
    /\ build_process' = Len(procs) + 1
    /\ SetUpc("uvicorn_check")
    /\ UNCHANGED current_uvicorn_thread

\* restart_uvicorn: if current_uvicorn_thread:
uvicorn_check ==
    /\ upc = "uvicorn_check"
    /\ IF current_uvicorn_thread # None
       THEN SetUpc("uvicorn_stop")
       ELSE SetUpc("uvicorn_start")
    /\ UNCHANGED <<procs, build_process, current_uvicorn_thread>>

\* current_uvicorn_thread.stop(): asks the server process to end
uvicorn_stop ==
    /\ upc = "uvicorn_stop"
    /\ procs' = [procs EXCEPT ![current_uvicorn_thread].state =
                    IF @ = "alive" THEN "signalled" ELSE @]
    /\ SetUpc("uvicorn_join")
    /\ UNCHANGED <<build_process, current_uvicorn_thread>>

\* current_uvicorn_thread.join(): returns when the server process has ended
uvicorn_join ==
    /\ upc = "uvicorn_join"
    /\ ~is_alive(current_uvicorn_thread)
    /\ SetUpc("uvicorn_start")
    /\ UNCHANGED <<procs, build_process, current_uvicorn_thread>>

\* current_uvicorn_thread = UvicornProcess(...); .start(); update_build returns
uvicorn_start ==
    /\ upc = "uvicorn_start"
    /\ StartProcess("server")
    /\ current_uvicorn_thread' = Len(procs) + 1
    /\ SetUpc("idle")
    /\ UNCHANGED build_process

\* a process ends: by itself (the build is done, the server fails), or
\* because it was asked to
ProcessExit(p) ==
    /\ p \in DOMAIN procs
    /\ is_alive(p)
    /\ procs' = [procs EXCEPT ![p].state =
                    IF @ = "signalled" THEN "terminated" ELSE "exited"]
    /\ UNCHANGED <<build_process, current_uvicorn_thread, upc>>

CliStep ==
    \/ update_build
    \/ build_check
    \/ build_terminate
    \/ build_join
    \/ build_start
    \/ uvicorn_check
    \/ uvicorn_stop
    \/ uvicorn_join
    \/ uvicorn_start
    \/ \E p \in 1..(2 * MaxBuilds) : ProcessExit(p)

---------------------------------------------------------------------------
(* The specifications *)

\* one session from construction on, with its handler and Timer threads; the
\* lock file may have been left by another process
Init ==
    /\ InitSessions(Envs, {NoFile, Foreign})
    /\ InitHandler
    /\ InitMergeIdle
    /\ InitResolveIdle
    /\ InitFilterIdle
    /\ InitCliIdle

Next ==
    \/ SessionStep(Watcher)
    \/ ExternalEvent(MaxSessionTimers)
    \/ SelfEvent(MaxSessionTimers)
    \/ \E t \in 1..MaxSessionTimers : TimerStep(t)

Spec == Init /\ [][Next]_vars

\* the handler of a session that blocks in observer.join(), with its Timer
\* threads: the state start_watching reaches for an installation whose
\* packages resolve, and the events and Timer steps from there
WatchingEnv == <<D_main_pth, D_dep_url>>

InitWatching ==
    /\ env = WatchingEnv
    /\ run_on_bootup = FALSE
    /\ spc = [s \in Sessions |-> IF s = Watcher THEN "join" ELSE "new"]
    /\ exc = [s \in Sessions |-> "none"]
    /\ exc_args = [s \in Sessions |-> NoArgs]
    /\ paths = [s \in Sessions |->
                  IF s = Watcher
                  THEN merge_paths([i \in DOMAIN WatchingEnv |-> resolve_package_path(WatchingEnv[i])])
                  ELSE <<>>]
    /\ touched = [s \in Sessions |-> s = Watcher]
    /\ lock_file = Watcher
    /\ bootcalls = [s \in Sessions |-> <<>>]
    /\ scheduled = [s \in Sessions |->
                      IF s = Watcher THEN {WatchRoot(paths[s][i]) : i \in DOMAIN paths[s]} ELSE {}]
    /\ observer = [s \in Sessions |-> IF s = Watcher THEN "running" ELSE "none"]

InitHandlerSpec ==
    /\ InitWatching
    /\ InitHandler
    /\ InitMergeIdle
    /\ InitResolveIdle
    /\ InitFilterIdle
    /\ InitCliIdle

NextHandler ==
    \/ ExternalEvent(MaxTimers)
    \/ SelfEvent(MaxTimers)
    \/ \E t \in 1..MaxTimers : TimerStep(t)

SpecHandler == InitHandlerSpec /\ [][NextHandler]_vars

\* NumSessions sessions started on the same main package, no lock file at first
InitLock ==
    /\ InitSessions(Envs, {NoFile})
    /\ InitHandler
    /\ InitMergeIdle
    /\ InitResolveIdle
    /\ InitFilterIdle
    /\ InitCliIdle

NextLock == \E s \in Sessions : SessionStep(s)

SpecLock == InitLock /\ [][NextLock]_vars

\* merge_paths applied to a list of paths
InitMerge ==
    /\ InitSessions({<<D_main_pth, D_dep_url>>}, {NoFile})
    /\ run_on_bootup = FALSE
    /\ InitHandler
    /\ raw_paths \in SeqsUpTo(PathUniverse, MaxPaths)
    /\ merged = <<>>
    /\ remerged = <<>>
    /\ mpc = "input"
    /\ InitResolveIdle
    /\ InitFilterIdle
    /\ InitCliIdle

NextMerge == MergeCall \/ MergeAgain

SpecMerge == InitMerge /\ [][NextMerge]_vars

\* resolve_package_path applied to a distribution
InitResolve ==
    /\ InitSessions({<<D_main_pth, D_dep_url>>}, {NoFile})
    /\ run_on_bootup = FALSE
    /\ InitHandler
    /\ InitMergeIdle
    /\ InitFilterIdle
    /\ InitCliIdle
    /\ rdist \in {[installed |-> TRUE, name |-> N_main, files |-> fs] :
                     fs \in SeqsUpTo(FileUniverse, MaxFiles)}
    /\ resolved_path = NoPath
    /\ rpc = "input"

NextResolve == ResolveCall

SpecResolve == InitResolve /\ [][NextResolve]_vars

\* one raw event delivered to the handler of a watching session; a set
\* ignore_changes is the one of a Timer thread that is in a callback
InitFilter ==
    /\ InitWatching
    /\ ignore_hidden \in BOOLEAN
    /\ ignore_changes \in BOOLEAN
    /\ timers = IF ignore_changes THEN <<RunningTimer>> ELSE <<>>
    /\ debounce_timer = IF ignore_changes THEN 1 ELSE NoTimer
    /\ inflight = <<>>
    /\ InitMergeIdle
    /\ InitResolveIdle
    /\ InitCliIdle
    /\ raw_event \in RawEvents
    /\ fpc = "event"

NextFilter == Deliver

SpecFilter == InitFilter /\ [][NextFilter]_vars

\* handle_runserver's calls of update_build, before the watcher and under it
InitRunserver ==
    /\ InitSessions({<<D_main_pth, D_dep_url>>}, {NoFile})
    /\ run_on_bootup = FALSE
    /\ InitHandler
    /\ InitMergeIdle
    /\ InitResolveIdle
    /\ InitFilterIdle
    /\ InitCli

NextRunserver == CliStep /\ UNCHANGED <<sessVars, handlerVars, pureVars>>

SpecRunserver == InitRunserver /\ [][NextRunserver]_vars

\* what the scheduler guarantees of a session that has entered
\* start_watching: its main thread goes on wherever it is not blocked, and so
\* does every Timer thread. An interrupt, a failing observer, a raising
\* callback and the events of the file system are the environment's choice.
MainThreadStep(s) ==
    \/ acquire_watchdog_lock(s)
    \/ lock_path_touch(s)
    \/ BootupInvoke(s)
    \/ BootupReturn(s)
    \/ SetupObserver(s)
    \/ ObserverStart(s)
    \/ ObserverStop(s)
    \/ lock_path_unlink(s)

Fairness ==
    /\ WF_vars(MainThreadStep(Watcher))
    /\ \A t \in 1..MaxSessionTimers : WF_vars(TimerStep(t))

\* the session of Spec under that scheduler
SpecLive == Init /\ [][Next]_vars /\ Fairness

---------------------------------------------------------------------------
(* The claims *)

Finished(t) == timers[t].pc = "finished"

\* C1: the raw event of a file a callback wrote into a watched root never
\* starts a debounce Timer (so it leads to no further callback invocation),
\* however the observer thread and the Timer threads interleave.
C1_SelfMutationSuppressed == \A t \in DOMAIN timers : ~timers[t].self

\* C2: at most one execution of handle_callbacks is in progress at any time.
C2_NoParallelBatches ==
    Cardinality({t \in DOMAIN timers : InHandleCallbacks(t)}) <= 1

\* C3: at most one session is between its lock_path.touch() and its
\* lock_path.unlink() at any time.
C3_LockMutualExclusion ==
    \A s1, s2 \in Sessions :
        InLockedRegion(s1) /\ InLockedRegion(s2) => s1 = s2

\* the Timers of the burst that Timer b began: each later event of the burst
\* arrived while the Timer of the event before it was still waiting
BurstTimers(b) == {t \in DOMAIN timers : timers[t].burst = b}
BurstLast(b) == CHOOSE t \in BurstTimers(b) : \A u \in BurstTimers(b) : u <= t
Count(calls, j) == Cardinality({k \in DOMAIN calls : calls[k] = j})
RECURSIVE SumCalls(_, _)
SumCalls(T, j) ==
    IF T = {} THEN 0
    ELSE LET t == CHOOSE x \in T : TRUE
         IN  Count(timers[t].calls, j) + SumCalls(T \ {t}, j)
Invocations(b, j) == SumCalls(BurstTimers(b), j)

\* C4: for a burst of events of one class c, each arriving before the Timer
\* of the previous one has run out, no callback is invoked more than once for
\* the whole burst, and when the burst's batch has completed every callback
\* whose mask includes c has been invoked exactly once and no other callback
\* at all.
C4_DebounceCollapse ==
    \A b \in DOMAIN timers :
        (timers[b].burst = b /\ Cardinality(timers[BurstLast(b)].classes) = 1) =>
            /\ \A j \in 1..NCallbacks : Invocations(b, j) <= 1
            /\ Finished(BurstLast(b)) =>
                 \A j \in 1..NCallbacks :
                     Invocations(b, j) =
                        IF timers[b].action \in Callbacks[j].action THEN 1 ELSE 0

\* a burst of two or more events of class MODIFIED whose batch has completed
C4_Witness ==
    \E t \in DOMAIN timers :
        /\ timers[t].burst # t
        /\ timers[t].classes = {"MODIFIED"}
        /\ Finished(t)
        /\ timers[t].calls = <<1, 2>>

\* C5: a qualifying event of one class never cancels the pending Timer of
\* another class (Timer t is cancelled by the event that starts Timer t + 1).
C5_ClassesDebounceIndependently ==
    \A t \in DOMAIN timers :
        timers[t].pc = "cancelled" => timers[t + 1].action = timers[t].action

\* C6: acquire_watchdog_lock called while the lock file exists ends the
\* session with WatchdogLockError and leaves the file in place; the session
\* that failed has run no bootup callback, touched nothing and registered no
\* root, and the file is still there.
C6_LockHeldFails ==
    /\ [][ \A s \in Sessions :
             (spc[s] = "constructed" /\ lock_file # NoFile /\ spc'[s] # spc[s]) =>
                 /\ spc'[s] = "ended"
                 /\ exc'[s] = "WatchdogLockError"
                 /\ lock_file' = lock_file ]_vars
    /\ [](\A s \in Sessions :
             exc[s] = "WatchdogLockError" =>
                 /\ lock_file # NoFile
                 /\ ~touched[s]
                 /\ bootcalls[s] = <<>>
                 /\ scheduled[s] = {}
                 /\ observer[s] = "none")

C6_Witness == exc[Watcher] = "WatchdogLockError" /\ spc[Watcher] = "ended"

\* C7: a session that executed lock_path.touch() and has left start_watching
\* (by return, KeyboardInterrupt or an exception in the with block) leaves no
\* lock file behind: the step that ends it leaves no file, and no file
\* created by an ended session exists.
C7_LockReleasedOnEveryExit ==
    /\ [][ \A s \in Sessions :
             (touched[s] /\ spc[s] # "ended" /\ spc'[s] = "ended") =>
                 lock_file' = NoFile ]_vars
    /\ [](\A s \in Sessions : (spc[s] = "ended" /\ touched[s]) => lock_file # s)

\* a session that touched the lock and ended by a bootup callback's exception
C7_Witness ==
    \E s \in Sessions :
        spc[s] = "ended" /\ touched[s] /\ exc[s] = "CallbackError" /\ lock_file = NoFile

Resolved == [i \in DOMAIN env |-> resolve_package_path(env[i])]

\* C8: a session has roots registered with its observer only if every
\* requested package is installed and resolved to a path and the session
\* touched the lock file, and then the roots cover every resolved path; a
\* session that failed validation, resolution or lock acquisition has no
\* observer and no root registered.
C8_AllOrNothing ==
    \A s \in Sessions :
        /\ (scheduled[s] # {} \/ observer[s] # "none") =>
              /\ \A i \in DOMAIN env : env[i].installed /\ Resolved[i] # NoPath
              /\ touched[s]
              /\ \A i \in DOMAIN env :
                    \E r \in scheduled[s] : IsPrefix(r.root, Path_resolve(Resolved[i]))
        /\ exc[s] \in {"ValueError", "WatchdogLockError"} =>
              scheduled[s] = {} /\ observer[s] = "none"

\* the observer runs on the two roots of an installation with separate roots
C8_Witness == observer[Watcher] = "running" /\ Cardinality(scheduled[Watcher]) = 2

AllCallbacks == [j \in 1..NCallbacks |-> j]

\* C9: the bootup loop invokes the callbacks in registration order, each at
\* most once, only with run_on_bootup set and only after the lock file was
\* touched; while one runs no root is registered; once a root is registered
\* every callback has been invoked once (run_on_bootup) or none (otherwise).
C9_BootupOrdering ==
    \A s \in Sessions :
        /\ IsPrefix(bootcalls[s], AllCallbacks)
        /\ bootcalls[s] # <<>> => run_on_bootup /\ touched[s]
        /\ spc[s] = "bootup_callback" => scheduled[s] = {} /\ observer[s] = "none"
        /\ (scheduled[s] # {} \/ observer[s] # "none") =>
              bootcalls[s] = IF run_on_bootup THEN AllCallbacks ELSE <<>>

\* with run_on_bootup, the session blocks in join after both callbacks ran
C9_Witness ==
    /\ run_on_bootup
    /\ spc[Watcher] = "join"
    /\ bootcalls[Watcher] = <<1, 2>>
    /\ Callbacks[1].action # Callbacks[2].action

Antichain(ps) ==
    \A i, j \in DOMAIN ps : i # j => ~IsPrefix(ps[i], ps[j])

\* C10 as stated: the result is an antichain, every returned path is one of
\* the inputs, and every input is at or below a returned path.
C10_AntichainOfInputs ==
    mpc = "merged" =>
        /\ Antichain(merged)
        /\ \A i \in DOMAIN merged : merged[i] \in Range(raw_paths)
        /\ \A k \in DOMAIN raw_paths : \E i \in DOMAIN merged : IsPrefix(merged[i], raw_paths[k])

\* C10 amended: the result is an antichain, every returned path is the
\* resolved form of an input, and the resolved form of every input is at or
\* below a returned path.
C10_AntichainOfResolvedInputs ==
    mpc = "merged" =>
        /\ Antichain(merged)
        /\ \A i \in DOMAIN merged :
              \E k \in DOMAIN raw_paths : merged[i] = Path_resolve(raw_paths[k])
        /\ \A k \in DOMAIN raw_paths :
              \E i \in DOMAIN merged : IsPrefix(merged[i], Path_resolve(raw_paths[k]))

\* merge_paths([A, A/B, A/C/D, E]) = [A, E]
C10_Witness ==
    /\ mpc = "merged"
    /\ raw_paths = << <<sA>>, <<sA, sB>>, <<sA, sC, sD>>, <<sE>> >>
    /\ merged = << <<sA>>, <<sE>> >>

\* C11: merge_paths is idempotent: applied to its own result it returns the
\* same list, the same paths in the same order.
C11_MergeIdempotent ==
    mpc = "remerged" => remerged = merged

\* merge_paths([E, A/B, A]) = [E, A] (E and A keep their order, A/B is
\* absorbed), and merging [E, A] again gives [E, A]
C11_Witness ==
    /\ mpc = "remerged"
    /\ raw_paths = << <<sE>>, <<sA, sB>>, <<sA>> >>
    /\ merged = << <<sE>>, <<sA>> >>
    /\ remerged = merged

HasFile(f) == f \in Range(rdist.files)

UrlFiles == {F_url, F_url_e, F_url_slashes}

\* the first direct_url.json entry of the manifest
FirstUrlFile == SelectSeq(rdist.files, LAMBDA f : f \in UrlFiles)[1]

OnlyUrl == ~HasFile(F_pth) /\ \E f \in UrlFiles : HasFile(f)

T_pth == << <<"a">> >>
T_init == SitePackages \o << <<"a", "_", "p">> >>

\* C12: the strategies are tried in a fixed order. With a .pth entry the path
\* is the one the .pth file names, whatever else the manifest lists; with a
\* direct_url.json entry and no .pth entry the path comes from the url and
\* not from __init__.py; the parent of __init__.py is the path only when
\* neither of the others is there; a manifest with a match gives one path.
C12_StrategyPriority ==
    rpc = "resolved" =>
        /\ HasFile(F_pth) => resolved_path = T_pth
        /\ OnlyUrl =>
              /\ resolved_path \notin {NoPath, T_pth, T_init}
              /\ FirstUrlFile = F_url => resolved_path = <<sC, sB>>
              /\ FirstUrlFile = F_url_slashes => resolved_path = <<sC, sD>>
        /\ (~HasFile(F_pth) /\ ~OnlyUrl /\ HasFile(F_init)) => resolved_path = T_init
        /\ (\E f \in FileUniverse \ {F_other} : HasFile(f)) => resolved_path # NoPath

\* a manifest that lists __init__.py, then direct_url.json, then the .pth
\* file resolves to what the .pth file names
C12_Witness ==
    /\ rpc = "resolved"
    /\ rdist.files = <<F_init, F_url, F_pth>>
    /\ resolved_path = T_pth

\* C13: a direct-URL record whose url is "file://" followed by the absolute
\* path p resolves to exactly p, with the slashes p begins with collapsed to
\* one; no other character of p is removed.
C13_DirectUrlIsPath ==
    (rpc = "resolved" /\ OnlyUrl) =>
        /\ FirstUrlFile = F_url => resolved_path = <<sC, sB>>
        /\ FirstUrlFile = F_url_e => resolved_path = <<sE, sB>>
        /\ FirstUrlFile = F_url_slashes => resolved_path = <<sC, sD>>

\* the packages of the installed index that are installed with a manifest
\* no strategy matches
Unresolvable(e) == {i \in DOMAIN e : e[i] \in {D_main_bare, D_dep_bare}}

AllInstalled(e) == \A i \in DOMAIN e : e[i].installed

\* the session has created no lock file and started no watch
NothingStarted(s) ==
    /\ paths[s] = <<>>
    /\ ~touched[s]
    /\ lock_file # s
    /\ bootcalls[s] = <<>>
    /\ scheduled[s] = {}
    /\ observer[s] = "none"

\* C14: when every package is installed and the manifest of one matches no
\* strategy, construction ends with the path-resolution error, whose message
\* names that package and lists its files; the session has no paths, creates
\* no lock file and starts no watch.
C14_UnresolvableFails ==
    \A s \in Sessions :
        (spc[s] \notin {"new", "checked"} /\ AllInstalled(env) /\ Unresolvable(env) # {}) =>
            /\ spc[s] = "ended"
            /\ exc[s] = "ValueError"
            /\ exc_args[s].text = "Could not find a valid path for package"
            /\ exc_args[s].package = (IF env[1] = D_main_bare THEN N_main ELSE N_dep)
            /\ exc_args[s].files = (IF env[1] = D_main_bare THEN D_main_bare.files
                                    ELSE D_dep_bare.files)
            /\ NothingStarted(s)

\* the main package resolves, the dependent one does not: the session has
\* ended with the error that names the dependent package
C14_Witness ==
    /\ env = <<D_main_pth, D_dep_bare>>
    /\ spc[Watcher] = "ended"
    /\ exc[Watcher] = "ValueError"
    /\ exc_args[Watcher].package = N_dep
    /\ lock_file = NoFile

\* C15: construction looks the packages up in order, the main one first; when
\* one is missing it ends with the not-installed error that names the first
\* missing package, and no path has been resolved, no lock file created and
\* no callback invoked.
C15_ValidationFirst ==
    \A s \in Sessions :
        (spc[s] # "new" /\ ~AllInstalled(env)) =>
            /\ spc[s] = "ended"
            /\ exc[s] = "ValueError"
            /\ exc_args[s].text = "is not installed in the current environment"
            /\ exc_args[s].package = (IF ~env[1].installed THEN N_main ELSE N_dep)
            /\ NothingStarted(s)

\* both packages are missing and the error names the main one
C15_Witness ==
    /\ env = <<NotInstalled, NotInstalled>>
    /\ spc[Watcher] = "ended"
    /\ exc_args[Watcher].package = N_main
    /\ exc_args[Watcher].text = "is not installed in the current environment"

P_plain == <<"/", "a", "/", "x">>
P_hidden == <<"/", "a", "/", ".", "g", "/", "x">>
P_ignored == <<"/", "a", "/", "_", "s", "s", "r", "/", "x">>
P_substring == <<"/", "a", "/", "u", "_", "s", "s", "r", "/", "x">>

\* the delivery of raw_event has started a Timer, which the handler holds
TimerStarted ==
    /\ Len(timers) = (IF ignore_changes THEN 2 ELSE 1)
    /\ debounce_timer = Len(timers)
    /\ timers[Len(timers)].pc = "waiting"

\* the delivery of raw_event has left the Timers as they were
NothingStartedByEvent ==
    /\ Len(timers) = (IF ignore_changes THEN 1 ELSE 0)
    /\ debounce_timer = Len(timers)
    /\ \A t \in DOMAIN timers : timers[t] = RunningTimer

\* C16: a raw event starts the debounce Timer exactly when it is not for a
\* directory, ignore_changes is clear, no segment of its path begins with "."
\* while ignore_hidden is on, and no segment equals an ignore_list entry; a
\* segment that only contains an entry does not drop it, and the ignore list
\* applies when ignore_hidden is off. Every other event changes nothing.
C16_FilterDecides ==
    fpc = "delivered" =>
        LET qualifies ==
              /\ ~raw_event.is_directory
              /\ ~ignore_changes
              /\ ~(ignore_hidden /\ raw_event.src_path = P_hidden)
              /\ raw_event.src_path # P_ignored
        IN  /\ raw_event.src_path \in {P_plain, P_hidden, P_ignored, P_substring}
            /\ IF qualifies THEN TimerStarted ELSE NothingStartedByEvent

\* with ignore_hidden off, an event below the hidden directory /a/.g has
\* started a Timer
C16_Witness ==
    /\ fpc = "delivered"
    /\ ~ignore_hidden
    /\ raw_event.src_path = P_hidden
    /\ TimerStarted

\* the callbacks whose mask holds the class, in registration order
ExpectedCalls(action) ==
    CASE action = "CREATED" -> <<1>>
      [] action = "MODIFIED" -> <<1, 2>>
      [] action = "DELETED" -> <<2>>

\* C17: the callbacks a Timer's firing invokes for its class are exactly the
\* registered callbacks whose mask holds the class, each once, in
\* registration order: the calls made so far are a prefix of that list, a
\* firing that has finished has made all of them, and a Timer that has not
\* come to handle_callbacks has made none.
C17_DispatchByMask ==
    \A t \in DOMAIN timers :
        /\ IsPrefix(timers[t].calls, ExpectedCalls(timers[t].action))
        /\ Finished(t) => timers[t].calls = ExpectedCalls(timers[t].action)
        /\ timers[t].pc \in {"waiting", "cancelled", "fired"} => timers[t].calls = <<>>

\* a firing for DELETED has finished and has called the second callback only
C17_Witness ==
    \E t \in DOMAIN timers :
        /\ Finished(t)
        /\ timers[t].action = "DELETED"
        /\ timers[t].calls = <<2>>

\* C18: whenever a callback is executing in a Timer's firing, ignore_changes
\* is true (it is cleared only after the callbacks of that firing are done),
\* also when another firing overlaps or follows.
C18_FlagBracketsFiring ==
    \A t \in DOMAIN timers : timers[t].pc = "callback" => ignore_changes

Raised(t) == timers[t].pc = "raised"

\* C19 as stated: once a callback has raised in a Timer's firing, the session
\* that blocks in observer.join() leaves the watch loop.
C19_RaiseEndsWatchLoop ==
    ((\E t \in DOMAIN timers : Raised(t)) /\ spc[Watcher] = "join")
        ~> (spc[Watcher] # "join")

\* C19 amended: the exception leaves handle_callbacks and ends the Timer's
\* thread, which calls no further callback and does not clear
\* ignore_changes; the step changes nothing of the session, whose main thread
\* stays where it is and whose observer keeps running.
C19_RaiseEndsTimerThreadOnly ==
    [][\A t \in DOMAIN timers :
          /\ (timers[t].pc = "callback" /\ Raised(t)') =>
                /\ timers'[t].calls = timers[t].calls
                /\ ignore_changes' = ignore_changes
                /\ spc' = spc /\ exc' = exc /\ observer' = observer
                /\ lock_file' = lock_file
          /\ Raised(t) => timers'[t] = timers[t]]_vars

\* a callback has raised, the session still blocks in observer.join() with
\* its observer running and its lock file in place
C19_Witness ==
    /\ \E t \in DOMAIN timers : Raised(t)
    /\ spc[Watcher] = "join"
    /\ exc[Watcher] = "none"
    /\ observer[Watcher] = "running"
    /\ lock_file = Watcher

\* C20: whenever KeyboardInterrupt reaches a session that blocks in
\* observer.join(), the session eventually has stopped its observer, has left
\* start_watching, and its lock file is gone.
C20_InterruptShutsDown ==
    (spc[Watcher] = "interrupted") ~>
        (spc[Watcher] = "ended" /\ observer[Watcher] = "stopped" /\ lock_file = NoFile)

\* the session was interrupted (observer.stop() was called) and has ended
\* without an exception and without its lock file
C20_Witness ==
    /\ spc[Watcher] = "ended"
    /\ observer[Watcher] = "stopped"
    /\ exc[Watcher] = "none"
    /\ touched[Watcher]
    /\ lock_file = NoFile

\* the session has created its lock file and has not deleted it
HoldsLockFile(s) == touched[s] /\ lock_file = s

\* C21: whenever a callback of the session is executing, in the bootup loop
\* or in the firing of a debounce Timer, the session has created its lock
\* file and has not yet deleted it, also for a Timer that is pending when the
\* session is interrupted and shuts down.
C21_CallbacksUnderLock ==
    /\ spc[Watcher] = "bootup_callback" => HoldsLockFile(Watcher)
    /\ \A t \in DOMAIN timers : timers[t].pc = "callback" => HoldsLockFile(Watcher)

Pending == {t \in DOMAIN timers : timers[t].pc = "waiting"}

\* C22: the handler holds one debounce Timer for all classes. At most one
\* Timer is waiting (neither cancelled nor fired) and it is the one the
\* handler holds, the newest; an event that starts a Timer leaves no older
\* Timer waiting, whatever the classes; and a Timer that gets to fire is the
\* last of its burst, so its batch is for the class of the most recent
\* qualifying event only.
C22_SingleSharedTimer ==
    /\ [](/\ Cardinality(Pending) <= 1
          /\ \A t \in Pending : t = debounce_timer /\ t = Len(timers)
          /\ \A t \in DOMAIN timers :
                timers[t].pc \notin {"waiting", "cancelled"} =>
                    /\ t = BurstLast(timers[t].burst)
                    /\ \A j \in DOMAIN timers[t].calls :
                          timers[t].action \in Callbacks[timers[t].calls[j]].action)
    /\ [][Len(timers') > Len(timers) =>
              /\ Len(timers') = Len(timers) + 1
              /\ debounce_timer' = Len(timers')
              /\ timers'[Len(timers')].pc = "waiting"
              /\ \A t \in DOMAIN timers : timers'[t].pc # "waiting"]_vars

\* a Created event, then a Deleted one while the Timer of the first was
\* waiting: the CREATED Timer is cancelled and the batch that has run is the
\* DELETED one, which called the second callback only
C22_Witness ==
    /\ Len(timers) = 2
    /\ timers[1].action = "CREATED" /\ timers[1].pc = "cancelled"
    /\ timers[2].action = "DELETED" /\ timers[2].burst = 1
    /\ Finished(2)
    /\ timers[2].calls = <<2>>

\* C23: once a callback has raised in a firing, ignore_changes is
\* true from then on, no raw event starts a Timer and no callback is invoked
\* again by the handler.
C23_RaiseSilencesHandler ==
    /\ []((\E t \in DOMAIN timers : Raised(t)) => ignore_changes)
    /\ [][(\E t \in DOMAIN timers : Raised(t)) =>
              /\ Len(timers') = Len(timers)
              /\ \A t \in DOMAIN timers : timers'[t].calls = timers[t].calls]_vars

Alive(kind) == {p \in DOMAIN procs : procs[p].kind = kind /\ is_alive(p)}

\* C24: in handle_runserver, with the calls of update_build one after the
\* other, at most one build process and at most one server process of the
\* command are alive, between the calls and during them; a process that is
\* alive is the one the command holds in build_process or
\* current_uvicorn_thread; and a new process is started only when no
\* process of its kind is alive (the one before has ended or was joined).
C24_OneServerOneBuild ==
    /\ [](/\ Cardinality(Alive("build")) <= 1
          /\ Cardinality(Alive("server")) <= 1
          /\ \A p \in Alive("build") : p = build_process
          /\ \A p \in Alive("server") : p = current_uvicorn_thread)
    /\ [][Len(procs') > Len(procs) =>
              Alive(procs'[Len(procs')].kind) = {}]_vars

\* the third call of update_build has returned: of the six processes the
\* command started, the last build and the last server are alive, and the
\* build before was terminated while it was running
C24_Witness ==
    /\ upc = "idle"
    /\ Len(procs) = 6
    /\ Alive("build") = {5}
    /\ Alive("server") = {6}
    /\ procs[3].state = "terminated"
    /\ procs[4].state = "terminated"

===========================================================================
